---- MODULE Spec2Model ----
(***************************************************************************)
(* Model of solve_lagrangian_relaxation                                    *)
(* (examples/decomposition_methods/lagrangian_relaxation.py).              *)
(*                                                                         *)
(* Arrays are 1-based sequences here (Python index i is i+1); the loop     *)
(* counter k keeps the code's 0-based value.  Real numbers are exact       *)
(* rationals with the common denominator Scale: the multipliers, the       *)
(* relaxed cost and the lower bounds are stored multiplied by Scale, so    *)
(* the step 1/(k+1) is exact for every k < MaxIterBound.  Costs, supplies  *)
(* and demands are integers, hence so are the flow and the subgradient.    *)
(***************************************************************************)
EXTENDS Integers, Sequences, FiniteSets, TLC

\* ---------------------------------------------------------------- bounds
MaxQty == 2
MaxIterBound == 3

\* ------------------------------------------------------ program constants
DefaultMaxIter == 1000
DefaultTolerance == [num |-> 1, den |-> 100000]
StepSizeScaling == 1

\* ------------------------------------------------------------ arithmetic
RECURSIVE GCD(_, _)
GCD(a, b) == IF b = 0 THEN a ELSE GCD(b, a % b)

RECURSIVE LcmUpTo(_)
LcmUpTo(n) == IF n <= 1 THEN 1 ELSE (LcmUpTo(n - 1) * n) \div GCD(LcmUpTo(n - 1), n)

\* Common denominator of the step sizes 1/(k+1), k < MaxIterBound.
Scale == LcmUpTo(MaxIterBound)

RECURSIVE SumTo(_, _)
SumTo(f, n) == IF n = 0 THEN 0 ELSE f[n] + SumTo(f, n - 1)

\* np.sum of a vector
Sum(v) == SumTo(v, Len(v))

\* -inf and finite values of best_lower_bound (finite ones carry value*Scale)
NegInf == [fin |-> FALSE, num |-> 0]
Fin(n) == [fin |-> TRUE, num |-> n]

\* a <= b on the extended values
LeqExt(a, b) == \/ ~a.fin
                \/ (b.fin /\ a.num <= b.num)

\* Mutants of max(a, b): the last value, and the smaller one
MaxExt_Last(a, b) == b
MaxExt_Min(a, b) == IF LeqExt(b, a) THEN b ELSE a

\* Python max(a, b): b only when b > a
MaxExt(a, b) == IF LeqExt(b, a) THEN a ELSE b

\* A local name that has not been assigned yet
Unbound == <<>>

\* The value of a quantity in a pass whose step 1/(k+1) is outside the range
\* that Scale represents exactly
OutOfRange == "unrepresented"

VARIABLES costs, supply, demand, max_iter, tolerance,
          pc, k, lambdas, x, best_lower_bound, term, error, result,
          lam_trace, lb_history, calls, first_call,
          util, opt, sub

inputs == <<costs, supply, demand, max_iter, tolerance>>
locals == <<k, lambdas, x, best_lower_bound>>
ghosts == <<lam_trace, lb_history>>
vars == <<costs, supply, demand, max_iter, tolerance,
          pc, k, lambdas, x, best_lower_bound, term, error, result,
          lam_trace, lb_history, calls, first_call, util, opt, sub>>

\* The call of a function of utilities/common_utils.py, the
\* SubstitutionInventoryOptimizer instance, and the progress of the sources
\* through the subproblem loop when its steps are taken one at a time
others == <<util, opt, sub>>

\* The subproblem loop is taken as a whole
NoSub == [step |-> <<>>, dest |-> <<>>, total |-> 0]

\* An Optional[List[str]] argument that is None
NoneArg == [given |-> FALSE, list |-> <<>>]
NoValue == "no value"
NoOutcome == [kind |-> "none", value |-> NoValue, error |-> "none", message |-> "none"]

\* No function of common_utils.py has been called
NoCall == [fn |-> "none", pc |-> "idle", data |-> [dtype |-> <<>>, rows |-> 0],
           method |-> "none", required_columns |-> <<>>, columns |-> NoneArg,
           outcome |-> NoOutcome]

\* No method of the instance has been called
NoMethod == [fn |-> "none", kind |-> "none", error |-> "none", rows |-> <<>>]

\* SubstitutionInventoryOptimizer.__init__: the model components are empty.
\* builds, solved and ncalls count the executions of build_model, the
\* completed solve() calls and all calls.
\* inventory_arrival and unmet_arrival hold, for every (item, day), the
\* arrival term of the inventory-balance constraint and of the unmet-demand
\* constraint of the problem, once it is built.
NewInstance(days, items, lead_time) ==
    [days |-> days, items |-> items, lead_time |-> lead_time,
     problem |-> "None", results |-> "None",
     inventory_arrival |-> <<>>, unmet_arrival |-> <<>>,
     builds |-> 0, solved |-> 0, ncalls |-> 0, last |-> NoMethod]

\* No instance has been constructed
NoInstance == NewInstance(0, 0, 0)

\* ---------------------------------------------------------------- shapes
\* costs.shape
num_sources == Len(costs)
num_destinations == Len(costs[1])

\* numpy broadcasting of a vector of length a with one of length b
Broadcastable(a, b) == a = b \/ a = 1 \/ b = 1
BroadcastLen(a, b) == IF a = 1 THEN b ELSE a
BIndex(len, j) == IF len = 1 THEN 1 ELSE j

ShapesMatch == Len(supply) = num_sources /\ Len(demand) = num_destinations

\* ------------------------------------------------------ subproblem solver
\* Mutant: the multipliers are left out
EffectiveCosts_NoMultipliers(i, lam) ==
    [j \in 1..num_destinations |-> costs[i][j] * Scale]

\* effective_costs = costs[i, :] + lambdas      (times Scale)
EffectiveCosts(i, lam) ==
    [j \in 1..num_destinations |-> costs[i][j] * Scale + lam[j]]

\* Mutant: the last index of the minimum
ArgMin_Last(e) ==
    CHOOSE j \in 1..Len(e) :
        \A j2 \in 1..Len(e) : e[j] < e[j2] \/ (e[j] = e[j2] /\ j >= j2)

\* Mutant: the first index of the maximum
ArgMin_Max(e) ==
    CHOOSE j \in 1..Len(e) :
        \A j2 \in 1..Len(e) : e[j] > e[j2] \/ (e[j] = e[j2] /\ j <= j2)

\* np.argmin: the first index of the minimum
ArgMin(e) ==
    CHOOSE j \in 1..Len(e) :
        \A j2 \in 1..Len(e) : e[j] < e[j2] \/ (e[j] = e[j2] /\ j <= j2)

best_dest_j(i, lam) == ArgMin(EffectiveCosts(i, lam))

MinEffectiveCost(i, lam) == EffectiveCosts(i, lam)[best_dest_j(i, lam)]

\* Mutant: a source whose costs are all zero never ships
Ships_NotFromZeroRow(i, lam) ==
    /\ MinEffectiveCost(i, lam) < 0
    /\ \E j \in 1..num_destinations : costs[i][j] # 0

\* Mutant: the threshold of the comment of line 49, "non-positive"
Ships_NonPositive(i, lam) == MinEffectiveCost(i, lam) <= 0

\* if effective_costs[best_dest_j] < 0
Ships(i, lam) == MinEffectiveCost(i, lam) < 0

\* supply[i] is read only for a row that ships; it is out of range when the
\* supply vector is shorter than the number of cost rows
SupplyIndexError(lam) ==
    \E i \in 1..num_sources : Ships(i, lam) /\ i > Len(supply)

\* Mutant: every destination of negative effective cost receives the supply
SubproblemFlow_AllNegative(lam) ==
    [i \in 1..num_sources |->
        [j \in 1..num_destinations |->
            IF EffectiveCosts(i, lam)[j] < 0 THEN supply[i] ELSE 0]]

\* Mutant: the shipped amount is read at the destination's index
SubproblemFlow_ColumnIndex(lam) ==
    [i \in 1..num_sources |->
        [j \in 1..num_destinations |->
            IF Ships(i, lam) /\ j = best_dest_j(i, lam)
            THEN (IF j <= Len(supply) THEN supply[j] ELSE 0)
            ELSE 0]]

\* Mutant: x is not set to zero at the head of the pass
SubproblemFlow_CarryOver(lam) ==
    [i \in 1..num_sources |->
        [j \in 1..num_destinations |->
            IF Ships(i, lam) /\ j = best_dest_j(i, lam) THEN supply[i]
            ELSE IF x = Unbound THEN 0 ELSE x[i][j]]]

\* x after the loop over the sources
SubproblemFlow(lam) ==
    [i \in 1..num_sources |->
        [j \in 1..num_destinations |->
            IF Ships(i, lam) /\ j = best_dest_j(i, lam) THEN supply[i] ELSE 0]]

\* Mutant: the multipliers are added to the rows of costs in place
CostsAfterPass_InPlace(lam) ==
    [i \in 1..num_sources |->
        [j \in 1..num_destinations |-> costs[i][j] + lam[j]]]

\* The cost matrix after the loop over the sources: costs[i, :] + lambdas
\* builds a new array for effective_costs, the rows of costs stay as they are
CostsAfterPass(lam) == costs

\* effective_costs[best_dest_j] * x[i, best_dest_j] (times Scale)
RowRelaxedCost(i, lam, flow) ==
    MinEffectiveCost(i, lam) * flow[i][best_dest_j(i, lam)]

\* Mutant: the plain cost is summed, without the multiplier
TotalCostRelaxed_PlainCost(lam, flow) ==
    Sum([i \in 1..num_sources |->
            costs[i][best_dest_j(i, lam)] * Scale * flow[i][best_dest_j(i, lam)]])

\* total_cost_relaxed (times Scale)
TotalCostRelaxed(lam, flow) ==
    Sum([i \in 1..num_sources |-> RowRelaxedCost(i, lam, flow)])

\* np.sum(lambdas * demand) (times Scale), with broadcasting
LambdaDotDemand(lam) ==
    Sum([j \in 1..BroadcastLen(Len(lam), Len(demand)) |->
            lam[BIndex(Len(lam), j)] * demand[BIndex(Len(demand), j)]])

\* Mutant: the multiplier-weighted demand is added
LagrangianLowerBound_Added(lam, flow) ==
    TotalCostRelaxed(lam, flow) + LambdaDotDemand(lam)

\* lagrangian_lower_bound (times Scale)
LagrangianLowerBound(lam, flow) ==
    TotalCostRelaxed(lam, flow) - LambdaDotDemand(lam)

\* np.sum(x, axis=0)
ColumnSums(flow) ==
    [j \in 1..num_destinations |->
        Sum([i \in 1..num_sources |-> flow[i][j]])]

\* subgradient = np.sum(x, axis=0) - demand, with broadcasting
Subgradient(flow) ==
    [j \in 1..BroadcastLen(num_destinations, Len(demand)) |->
        ColumnSums(flow)[BIndex(num_destinations, j)]
            - demand[BIndex(Len(demand), j)]]

\* Mutant: only the first component is measured
NormSquared_FirstOnly(g) == IF Len(g) = 0 THEN 0 ELSE g[1] * g[1]

\* the square of np.linalg.norm(subgradient)
NormSquared(g) == Sum([j \in 1..Len(g) |-> g[j] * g[j]])

\* Mutant: the comparison is turned around
NormBelowTolerance_Flipped(g, tol) == NormSquared(g) > 0

\* subgradient_norm < tolerance.  The subgradient is integral, so for a
\* tolerance of at most 1 the norm is below it exactly when it is zero.
NormBelowTolerance(g, tol) ==
    /\ tol.num > 0
    /\ IF tol.num <= tol.den
       THEN NormSquared(g) = 0
       ELSE NormSquared(g) * tol.den * tol.den < tol.num * tol.num

\* Mutant: the step is taken against the subgradient
UpdatedLambdas_Descent(lam, g, kk) ==
    [j \in 1..Len(lam) |->
        lam[j] - ((StepSizeScaling * Scale) \div (kk + 1)) * g[j]]

\* Mutant: the step size does not diminish
UpdatedLambdas_FixedStep(lam, g, kk) ==
    [j \in 1..Len(lam) |-> lam[j] + (StepSizeScaling * Scale) * g[j]]

\* lambdas += step_size * subgradient, step_size = step_size_scaling / (k + 1)
UpdatedLambdas(lam, g, kk) ==
    [j \in 1..Len(lam) |->
        lam[j] + ((StepSizeScaling * Scale) \div (kk + 1)) * g[j]]

\* Mutant: the loop never runs out of indices
LoopContinues_Always(kk) == TRUE

\* for k in range(max_iter): another index follows kk
LoopContinues(kk) == kk + 1 < max_iter

\* Mutant: the multipliers start at one
FreshLambdas_Ones(D) == [j \in 1..D |-> Scale]

\* Mutant: the array of an earlier call is used again
FreshLambdas_Kept(D) == IF lambdas = Unbound THEN [j \in 1..D |-> 0] ELSE lambdas

\* lambdas = np.zeros(num_destinations)
FreshLambdas(D) == [j \in 1..D |-> 0]

\* np.maximum(lambdas, 0)
ClampedLambdas(lam) == [j \in 1..Len(lam) |-> IF lam[j] > 0 THEN lam[j] ELSE 0]

\* Mutant: the flow is computed again from the clamped multipliers
ReturnedValue_FromClamped(flow, bound, lam) ==
    [flow |-> SubproblemFlow(lam), bound |-> bound]

\* return x, best_lower_bound: the clamped multipliers lam are not read
ReturnedValue(flow, bound, lam) == [flow |-> flow, bound |-> bound]

\* ----------------------------------------------------------------- inputs
Dims == {<<1, 1>>, <<1, 2>>, <<2, 1>>, <<2, 2>>}

\* Unit costs of the generated problems.  With quantities up to MaxQty they
\* give effective costs below, at and above the threshold 0.
CostValues == {0, 1}

Matrices(S, D, vals) == [1..S -> [1..D -> vals]]
Vectors(n, vals) == [1..n -> vals]

\* Well-formed problems: matching shapes, non-negative costs and quantities
GridInputs ==
    UNION { { [c |-> c, s |-> s, d |-> d] :
                c \in Matrices(sd[1], sd[2], CostValues),
                s \in Vectors(sd[1], 0..MaxQty),
                d \in Vectors(sd[2], 0..MaxQty) } : sd \in Dims }

\* Uniform cost matrices, for the problems whose vectors have the wrong length
UniformCosts(S, D) == { [i \in 1..S |-> [j \in 1..D |-> c]] : c \in CostValues }

\* supply one shorter or one longer than the number of cost rows
SupplyMismatchInputs ==
    UNION { { [c |-> c, s |-> s, d |-> d] :
                c \in UniformCosts(sd[1], sd[2]),
                s \in Vectors(sd[1] - 1, 0..MaxQty) \cup Vectors(sd[1] + 1, 0..MaxQty),
                d \in Vectors(sd[2], 0..MaxQty) } : sd \in Dims }

\* demand one shorter or one longer than the number of cost columns, or of
\* length 1
DemandMismatchInputs ==
    UNION { { [c |-> c, s |-> s, d |-> d] :
                c \in UniformCosts(sd[1], sd[2]),
                s \in Vectors(sd[1], 0..MaxQty),
                d \in { v \in Vectors(sd[2] - 1, 0..MaxQty)
                              \cup Vectors(sd[2] + 1, 0..MaxQty)
                              \cup Vectors(1, 0..MaxQty) : Len(v) # sd[2] } }
            : sd \in Dims }

\* Scenario B of the specification: one source, one destination
ScenarioB == [c |-> <<<<5>>>>, s |-> <<10>>, d |-> <<10>>]

\* Scenario A: the example of the __main__ block
ScenarioA == [c |-> <<<<10, 20, 30>>, <<40, 50, 60>>, <<70, 80, 90>>>>,
              s |-> <<100, 150, 200>>,
              d |-> <<120, 130, 200>>]

InitLocals ==
    /\ pc = "call"
    /\ k = 0
    /\ lambdas = Unbound
    /\ x = Unbound
    /\ best_lower_bound = NegInf
    /\ term = "none"
    /\ error = "none"
    /\ result = Unbound
    /\ lam_trace = <<>>
    /\ lb_history = <<>>
    /\ calls = 1
    /\ first_call = Unbound
    /\ util = NoCall
    /\ opt = NoInstance
    /\ sub = NoSub

Init ==
    /\ \/ \E p \in GridInputs \cup SupplyMismatchInputs \cup DemandMismatchInputs :
            /\ costs = p.c /\ supply = p.s /\ demand = p.d
            /\ max_iter \in 0..MaxIterBound
       \/ /\ costs = ScenarioB.c /\ supply = ScenarioB.s /\ demand = ScenarioB.d
          /\ max_iter = DefaultMaxIter
    /\ tolerance = DefaultTolerance
    /\ InitLocals

\* --------------------------------------------------------------- actions
\* Lines 23-34: unpack the shape, initialise the multipliers and the bound,
\* and enter the loop (or skip it when range(max_iter) is empty).
Call ==
    /\ pc = "call"
    /\ lambdas' = FreshLambdas(num_destinations)
    /\ best_lower_bound' = NegInf
    /\ x' = Unbound
    /\ k' = 0
    /\ lam_trace' = <<>>
    /\ lb_history' = <<>>
    /\ IF max_iter >= 1
       THEN pc' = "loop" /\ term' = "none"
       ELSE pc' = "post" /\ term' = "exhausted"
    /\ UNCHANGED <<inputs, error, result, calls, first_call, others>>

\* The exception leaves the function: nothing is returned.
Raise(name) ==
    /\ pc' = "raised"
    /\ error' = name
    /\ UNCHANGED <<inputs, locals, term, result, lb_history, calls, first_call>>

\* Lines 34-84: one pass through the loop body.
Iterate ==
    /\ pc = "loop"
    /\ k < MaxIterBound
    /\ lam_trace' = Append(lam_trace, lambdas)
    /\ UNCHANGED others
    /\ LET flow == SubproblemFlow(lambdas)
           lb == LagrangianLowerBound(lambdas, flow)
           g == Subgradient(flow)
       IN  IF SupplyIndexError(lambdas)
           THEN Raise("IndexError")
           ELSE IF ~Broadcastable(num_destinations, Len(demand))
           THEN Raise("ValueError")
           ELSE IF NormBelowTolerance(g, tolerance)
           THEN /\ x' = flow
                /\ best_lower_bound' = MaxExt(best_lower_bound, Fin(lb))
                /\ lb_history' = Append(lb_history, lb)
                /\ pc' = "post"
                /\ term' = "converged"
                /\ costs' = CostsAfterPass(lambdas)
                /\ UNCHANGED <<supply, demand, max_iter, tolerance>>
                /\ UNCHANGED <<k, lambdas, error, result, calls, first_call>>
           ELSE IF Len(g) # Len(lambdas)
           THEN Raise("ValueError")
           ELSE /\ x' = flow
                /\ best_lower_bound' = MaxExt(best_lower_bound, Fin(lb))
                /\ lb_history' = Append(lb_history, lb)
                /\ lambdas' = UpdatedLambdas(lambdas, g, k)
                /\ IF LoopContinues(k)
                   THEN k' = k + 1 /\ pc' = "loop" /\ term' = "none"
                   ELSE k' = k /\ pc' = "post" /\ term' = "exhausted"
                /\ costs' = CostsAfterPass(lambdas)
                /\ UNCHANGED <<supply, demand, max_iter, tolerance>>
                /\ UNCHANGED <<error, result, calls, first_call>>

\* Lines 86-91: clamp the multipliers and return (x, best_lower_bound).
Return ==
    /\ pc = "post"
    /\ k < MaxIterBound
    /\ lambdas' = ClampedLambdas(lambdas)
    /\ IF x = Unbound
       THEN /\ pc' = "raised"
            /\ error' = "UnboundLocalError"
            /\ UNCHANGED result
       ELSE /\ pc' = "returned"
            /\ result' = ReturnedValue(x, best_lower_bound, ClampedLambdas(lambdas))
            /\ UNCHANGED error
    /\ UNCHANGED <<inputs, k, x, best_lower_bound, term, ghosts, calls, first_call>>
    /\ UNCHANGED others

Next == Call \/ Iterate \/ Return

Spec == Init /\ [][Next]_vars

\* ---------------------------------------------------- a second, equal call
\* The caller calls the function again with the same arguments.  The first
\* call's outcome is kept for comparison.  The old multiplier array is
\* garbage that Call replaces by a new array.
CallAgain ==
    /\ pc \in {"returned", "raised"}
    /\ calls = 1
    /\ calls' = 2
    /\ first_call' = [lams |-> lam_trace, result |-> result, error |-> error,
                      term |-> term]
    /\ pc' = "call"
    /\ k' = 0
    /\ lambdas' = lambdas
    /\ x' = Unbound
    /\ best_lower_bound' = NegInf
    /\ term' = "none"
    /\ error' = "none"
    /\ result' = Unbound
    /\ lam_trace' = <<>>
    /\ lb_history' = <<>>
    /\ UNCHANGED <<inputs, others>>

NextTwice == Call \/ Iterate \/ Return \/ CallAgain

SpecTwice == Init /\ [][NextTwice]_vars

\* ------------------------------------------- Scenario A, all 1000 passes
\* Every flow the subproblem solver can produce, whatever the multipliers
\* are: each row is zero or carries its whole supply at one destination.
RowShipFlows ==
    { [i \in 1..num_sources |->
          [j \in 1..num_destinations |-> IF choice[i] = j THEN supply[i] ELSE 0]] :
        choice \in [1..num_sources -> 0..num_destinations] }

\* Lines 34-84 for k >= MaxIterBound, where the multipliers are no longer
\* represented: the pass is over-approximated by every flow the subproblem
\* solver can produce (RowShipFlows); lines 63-72 are exact.  The flow of a
\* pass that is followed by another is overwritten at line 38 before it is
\* read, and is not kept.
IterateBeyond ==
    /\ pc = "loop"
    /\ k >= MaxIterBound
    /\ ShapesMatch
    /\ \E flow \in RowShipFlows :
        IF NormBelowTolerance(Subgradient(flow), tolerance)
        THEN pc' = "post" /\ term' = "converged" /\ k' = k /\ x' = flow
        ELSE IF LoopContinues(k)
        THEN pc' = "loop" /\ term' = "none" /\ k' = k + 1 /\ x' = OutOfRange
        ELSE pc' = "post" /\ term' = "exhausted" /\ k' = k /\ x' = flow
    /\ lambdas' = OutOfRange
    /\ best_lower_bound' = OutOfRange
    /\ UNCHANGED <<inputs, error, result, ghosts, calls, first_call, others>>

\* Lines 86-91 after such a pass: the clamp touches only the multipliers.
ReturnBeyond ==
    /\ pc = "post"
    /\ k >= MaxIterBound
    /\ pc' = "returned"
    /\ result' = [flow |-> x, bound |-> best_lower_bound]
    /\ UNCHANGED <<inputs, locals, term, error, ghosts, calls, first_call, others>>

InitA ==
    /\ costs = ScenarioA.c /\ supply = ScenarioA.s /\ demand = ScenarioA.d
    /\ max_iter = DefaultMaxIter
    /\ tolerance = DefaultTolerance
    /\ InitLocals

NextA == Call \/ Iterate \/ IterateBeyond \/ ReturnBeyond

SpecA == InitA /\ [][NextA]_vars

\* ================================================================ claims
\* ------------------------------------------- calls with tolerance <= 0
\* The caller passes a tolerance of zero or below.
NonPositiveTolerances == {[num |-> 0, den |-> 1], [num |-> -1, den |-> 100000]}

\* Problems with one source
OneSourceInputs == {p \in GridInputs : Len(p.c) = 1}

InitTol ==
    /\ \E p \in OneSourceInputs :
          costs = p.c /\ supply = p.s /\ demand = p.d
    /\ max_iter \in 1..MaxIterBound
    /\ tolerance \in NonPositiveTolerances
    /\ InitLocals

SpecTol == InitTol /\ [][Next]_vars

\* -------------------------------------------- a second, different call
\* Problems with one source and one destination
OneByOneInputs == {p \in OneSourceInputs : Len(p.c[1]) = 1}

InitOther ==
    /\ \E p \in OneByOneInputs :
          costs = p.c /\ supply = p.s /\ demand = p.d
    /\ max_iter \in 1..MaxIterBound
    /\ tolerance = DefaultTolerance
    /\ InitLocals

\* The caller calls the function again with other arguments.  The first
\* call's outcome is kept for comparison.
CallOther ==
    /\ pc \in {"returned", "raised"}
    /\ calls = 1
    /\ calls' = 2
    /\ first_call' = [lams |-> lam_trace, result |-> result, error |-> error,
                      term |-> term]
    /\ \E p \in OneByOneInputs :
          costs' = p.c /\ supply' = p.s /\ demand' = p.d
    /\ max_iter' \in 1..MaxIterBound
    /\ pc' = "call"
    /\ k' = 0
    /\ lambdas' = lambdas
    /\ x' = Unbound
    /\ best_lower_bound' = NegInf
    /\ term' = "none"
    /\ error' = "none"
    /\ result' = Unbound
    /\ lam_trace' = <<>>
    /\ lb_history' = <<>>
    /\ UNCHANGED <<tolerance, others>>

NextOther == Call \/ Iterate \/ Return \/ CallOther

SpecOther == InitOther /\ [][NextOther]_vars

\* ------------------------------------------- the subproblem solver alone
\* Lines 38-54 applied to any multiplier vector, not only to those the
\* subgradient steps reach: whole and half multiples of one unit of cost,
\* of both signs.
LambdaValues == {-2 * Scale, -Scale, -(Scale \div 2), 0, Scale}

InitSub ==
    /\ \E p \in GridInputs :
          /\ p.d = [j \in 1..Len(p.d) |-> 0]
          /\ costs = p.c /\ supply = p.s /\ demand = p.d
    /\ max_iter = DefaultMaxIter
    /\ tolerance = DefaultTolerance
    /\ lambdas \in Vectors(num_destinations, LambdaValues)
    /\ pc = "subproblem"
    /\ k = 0
    /\ x = Unbound
    /\ best_lower_bound = NegInf
    /\ term = "none"
    /\ error = "none"
    /\ result = Unbound
    /\ lam_trace = <<>>
    /\ lb_history = <<>>
    /\ calls = 1
    /\ first_call = Unbound
    /\ util = NoCall
    /\ opt = NoInstance
    /\ sub = NoSub

\* x = np.zeros(...) and the loop over the sources
SolveSubproblem ==
    /\ pc = "subproblem"
    /\ x' = SubproblemFlow(lambdas)
    /\ pc' = "solved"
    /\ UNCHANGED <<inputs, k, lambdas, best_lower_bound, term, error, result,
                   ghosts, calls, first_call, others>>

NextSub == SolveSubproblem

SpecSub == InitSub /\ [][NextSub]_vars

\* ------------------------------- the subproblem loop, one step at a time
\* Lines 42-54 for each source as four steps: the argmin (line 47), the
\* test (line 50), the write (line 51) and the addition to
\* total_cost_relaxed (line 54).  The sources take their steps in any order.
ZeroMatrix == [i \in 1..num_sources |-> [j \in 1..num_destinations |-> 0]]

\* Mutant: the write starts from a new zero matrix
RowWritten_Fresh(xcur, i, j) == [ZeroMatrix EXCEPT ![i][j] = supply[i]]

\* x[i, best_dest_j] = supply[i]
RowWritten(xcur, i, j) == [xcur EXCEPT ![i][j] = supply[i]]

InitRows ==
    /\ \E p \in GridInputs :
          /\ p.d = [j \in 1..Len(p.d) |-> 0]
          /\ costs = p.c /\ supply = p.s /\ demand = p.d
    /\ max_iter = DefaultMaxIter
    /\ tolerance = DefaultTolerance
    /\ lambdas \in Vectors(num_destinations, LambdaValues)
    /\ pc = "rows"
    /\ k = 0
    /\ x = ZeroMatrix
    /\ best_lower_bound = NegInf
    /\ term = "none"
    /\ error = "none"
    /\ result = Unbound
    /\ lam_trace = <<>>
    /\ lb_history = <<>>
    /\ calls = 1
    /\ first_call = Unbound
    /\ util = NoCall
    /\ opt = NoInstance
    /\ sub = [step |-> [i \in 1..num_sources |-> "argmin"],
              dest |-> [i \in 1..num_sources |-> 0],
              total |-> 0]

RowsUnchanged ==
    UNCHANGED <<inputs, pc, k, lambdas, best_lower_bound, term, error, result,
                ghosts, calls, first_call, util, opt>>

\* best_dest_j = np.argmin(effective_costs)
RowArgMin(i) ==
    /\ pc = "rows"
    /\ sub.step[i] = "argmin"
    /\ sub' = [sub EXCEPT !.dest[i] = best_dest_j(i, lambdas), !.step[i] = "test"]
    /\ UNCHANGED x
    /\ RowsUnchanged

\* if effective_costs[best_dest_j] < 0
RowTest(i) ==
    /\ pc = "rows"
    /\ sub.step[i] = "test"
    /\ sub' = [sub EXCEPT !.step[i] =
                  IF EffectiveCosts(i, lambdas)[sub.dest[i]] < 0 THEN "write" ELSE "add"]
    /\ UNCHANGED x
    /\ RowsUnchanged

\* x[i, best_dest_j] = supply[i]
RowWrite(i) ==
    /\ pc = "rows"
    /\ sub.step[i] = "write"
    /\ x' = RowWritten(x, i, sub.dest[i])
    /\ sub' = [sub EXCEPT !.step[i] = "add"]
    /\ RowsUnchanged

\* total_cost_relaxed += effective_costs[best_dest_j] * x[i, best_dest_j]
RowAdd(i) ==
    /\ pc = "rows"
    /\ sub.step[i] = "add"
    /\ sub' = [sub EXCEPT !.step[i] = "done",
                          !.total = @ + EffectiveCosts(i, lambdas)[sub.dest[i]]
                                          * x[i][sub.dest[i]]]
    /\ UNCHANGED x
    /\ RowsUnchanged

NextRows ==
    \E i \in 1..num_sources : RowArgMin(i) \/ RowTest(i) \/ RowWrite(i) \/ RowAdd(i)

SpecRows == InitRows /\ [][NextRows]_vars

\* ------------------------------------------ utilities/common_utils.py
\* A DataFrame is its columns' dtypes and its number of rows; the column
\* names are unique and the cell values are not represented.
MaxRows == 1
MaxCols == 2

ColumnNames == {"A", "B"}
\* Names a caller may list; "X" is never a column
ListedNames == ColumnNames \cup {"X"}
DTypes == {"absent", "numeric", "string"}
Frames == [dtype : [ColumnNames -> DTypes], rows : 0..MaxRows]

SeqsUpTo(S, n) == UNION {[1..m -> S] : m \in 0..n}
NameLists == SeqsUpTo(ListedNames, MaxCols)
\* An Optional[List[str]] argument: None, or a list
OptionalNameLists == {NoneArg} \cup {[given |-> TRUE, list |-> l] : l \in NameLists}

\* col in data.columns
HasColumn(data, col) == col \in ColumnNames /\ data.dtype[col] # "absent"
\* pd.api.types.is_numeric_dtype(data[col])
IsNumeric(data, col) == data.dtype[col] = "numeric"
\* data.empty: an axis of length 0
IsEmpty(data) == data.rows = 0 \/ \A c \in ColumnNames : data.dtype[c] = "absent"

Returned(v) == [kind |-> "return", value |-> v, error |-> "none", message |-> "none"]
Raised(e, msg) == [kind |-> "raise", value |-> NoValue, error |-> e, message |-> msg]

\* missing_cols
MissingCols(data, required_columns) ==
    SelectSeq(required_columns, LAMBDA col : ~HasColumn(data, col))

\* Mutant: the check for empty data returns False
validate_data_ReturnsFalse(data, required_columns, numeric_columns) ==
    IF MissingCols(data, required_columns) # <<>>
    THEN Raised("ValueError", "Missing required columns")
    ELSE IF /\ numeric_columns.given
            /\ \E n \in 1..Len(numeric_columns.list) :
                  /\ HasColumn(data, numeric_columns.list[n])
                  /\ ~IsNumeric(data, numeric_columns.list[n])
    THEN Raised("ValueError", "must be numeric")
    ELSE IF IsEmpty(data)
    THEN Returned(FALSE)
    ELSE Returned(TRUE)

\* validate_data: the three checks in the order of the code
validate_data(data, required_columns, numeric_columns) ==
    IF MissingCols(data, required_columns) # <<>>
    THEN Raised("ValueError", "Missing required columns")
    ELSE IF /\ numeric_columns.given
            /\ \E n \in 1..Len(numeric_columns.list) :
                  /\ HasColumn(data, numeric_columns.list[n])
                  /\ ~IsNumeric(data, numeric_columns.list[n])
    THEN Raised("ValueError", "must be numeric")
    ELSE IF IsEmpty(data)
    THEN Raised("ValueError", "Data cannot be empty")
    ELSE Returned(TRUE)

Methods == {"minmax", "zscore", "robust"}
\* A method name that is none of the three
OtherMethod == "invalid"

\* df.select_dtypes(include=[np.number]).columns.tolist()
NumericColumnList(data) ==
    SelectSeq(<<"A", "B">>, LAMBDA col : data.dtype[col] = "numeric")

\* The columns the loop runs over
LoopColumns(data, columns) ==
    IF columns.given THEN columns.list ELSE NumericColumnList(data)

\* What the body of the loop does for one column under one of the three
\* methods: df[col] raises KeyError for a name that is no column, the
\* arithmetic raises TypeError on strings
ColumnError(data, col) ==
    IF ~HasColumn(data, col) THEN "KeyError"
    ELSE IF data.dtype[col] = "string" /\ data.rows > 0 THEN "TypeError"
    ELSE "none"

\* The index of the first column of the list whose body raises, 0 if none
FirstFailing(data, cols) ==
    IF \E n \in 1..Len(cols) : ColumnError(data, cols[n]) # "none"
    THEN CHOOSE n \in 1..Len(cols) :
            /\ ColumnError(data, cols[n]) # "none"
            /\ \A n2 \in 1..(n - 1) : ColumnError(data, cols[n2]) = "none"
    ELSE 0

\* df after the loop, all columns of the list normalized
NormalizedFrame(data, cols) ==
    [data EXCEPT !.dtype =
        [c \in ColumnNames |->
            IF \E n \in 1..Len(cols) : cols[n] = c
            THEN "normalized" ELSE data.dtype[c]]]

\* normalize_data: the method is looked at inside the loop, once per column
normalize_data(data, method, columns) ==
    LET cols == LoopColumns(data, columns)
    IN  IF cols = <<>>
        THEN Returned(data)
        ELSE IF method \notin Methods
        THEN Raised("ValueError", "Unknown normalization method")
        ELSE IF FirstFailing(data, cols) # 0
        THEN Raised(ColumnError(data, cols[FirstFailing(data, cols)]), "none")
        ELSE Returned(NormalizedFrame(data, cols))

\* The solver is not called
SolverIdle ==
    /\ costs = ScenarioB.c /\ supply = ScenarioB.s /\ demand = ScenarioB.d
    /\ max_iter = DefaultMaxIter
    /\ tolerance = DefaultTolerance
    /\ pc = "idle"
    /\ k = 0
    /\ lambdas = Unbound
    /\ x = Unbound
    /\ best_lower_bound = NegInf
    /\ term = "none"
    /\ error = "none"
    /\ result = Unbound
    /\ lam_trace = <<>>
    /\ lb_history = <<>>
    /\ calls = 1
    /\ first_call = Unbound

ValidateCalls ==
    { [fn |-> "validate_data", pc |-> "called", data |-> d, method |-> "none",
       required_columns |-> r, columns |-> n, outcome |-> NoOutcome] :
        d \in Frames, r \in NameLists, n \in OptionalNameLists }

NormalizeCalls ==
    { [fn |-> "normalize_data", pc |-> "called", data |-> d, method |-> m,
       required_columns |-> <<>>, columns |-> c, outcome |-> NoOutcome] :
        d \in Frames, m \in Methods \cup {OtherMethod}, c \in OptionalNameLists }

InitUtil ==
    /\ SolverIdle
    /\ util \in ValidateCalls \cup NormalizeCalls
    /\ opt = NoInstance
    /\ sub = NoSub

\* validate_data(data, required_columns, numeric_columns)
ValidateData ==
    /\ util.fn = "validate_data"
    /\ util.pc = "called"
    /\ util' = [util EXCEPT !.pc = "done",
                   !.outcome = validate_data(util.data, util.required_columns, util.columns)]
    /\ UNCHANGED <<inputs, locals, pc, term, error, result, ghosts, calls, first_call, opt, sub>>

\* normalize_data(data, method, columns)
NormalizeData ==
    /\ util.fn = "normalize_data"
    /\ util.pc = "called"
    /\ util' = [util EXCEPT !.pc = "done",
                   !.outcome = normalize_data(util.data, util.method, util.columns)]
    /\ UNCHANGED <<inputs, locals, pc, term, error, result, ghosts, calls, first_call, opt, sub>>

NextUtil == ValidateData \/ NormalizeData

SpecUtil == InitUtil /\ [][NextUtil]_vars

\* ------------------------------------------ subs/substitution_models.py
\* One SubstitutionInventoryOptimizer instance and the calls of build_model,
\* solve and get_results_dataframe on it.  The items are numbered 1..items,
\* the days 0..days-1; the linear program and its values are not represented.
MaxDays == 2
MaxItems == 2
MaxCalls == 4
MaxLeadTime == 2

\* Mutant: solve() builds the model on every call
NeedsBuild_Always(o) == TRUE

\* if self.problem is None
NeedsBuild(o) == o.problem = "None"

\* not self.results
NoResults(o) == o.results = "None"

\* data after the loops over range(self.days) and self.items
ResultRows(o) ==
    [n \in 1..(o.days * o.items) |->
        [day |-> (n - 1) \div o.items, item |-> ((n - 1) % o.items) + 1]]

\* The constraint has no arrival term (arrival = 0)
NoArrival == [item |-> 0, day |-> -1]
\* self.variables["order_qty"][i, t]
OrderQty(i, t) == [item |-> i, day |-> t]

\* _add_inventory_constraints: the constraint of day 0 has no arrival term,
\* whatever the lead time
InventoryArrival(o, i, t) ==
    IF t = 0 THEN NoArrival
    ELSE IF t >= o.lead_time THEN OrderQty(i, t - o.lead_time)
    ELSE NoArrival

\* _add_unmet_demand_constraints
UnmetArrival(o, i, t) ==
    IF t >= o.lead_time THEN OrderQty(i, t - o.lead_time) ELSE NoArrival

MethodReturned(name, rows) == [fn |-> name, kind |-> "return", error |-> "none", rows |-> rows]
MethodRaised(name, e) == [fn |-> name, kind |-> "raise", error |-> e, rows |-> <<>>]

\* self.problem = LpProblem(...) and all that follows it in build_model
Built(o) ==
    [o EXCEPT !.problem = "built", !.builds = @ + 1,
              !.inventory_arrival =
                  [p \in (1..o.items) \X (0..(o.days - 1)) |->
                      InventoryArrival(o, p[1], p[2])],
              !.unmet_arrival =
                  [p \in (1..o.items) \X (0..(o.days - 1)) |->
                      UnmetArrival(o, p[1], p[2])]]

InitOpt ==
    /\ SolverIdle
    /\ util = NoCall
    /\ \E days \in 1..MaxDays : \E items \in 1..MaxItems :
          \E lead_time \in 0..MaxLeadTime :
              opt = NewInstance(days, items, lead_time)
    /\ sub = NoSub

\* build_model(): a new problem, whether or not there was one
BuildModel ==
    /\ opt.ncalls < MaxCalls
    /\ opt' = [Built(opt) EXCEPT !.ncalls = @ + 1,
                                 !.last = MethodReturned("build_model", <<>>)]
    /\ UNCHANGED <<inputs, locals, pc, term, error, result, ghosts, calls, first_call, util, sub>>

\* solve(): build if there is no problem, run the solver, store the results.
\* self.problem.solve() raises PulpSolverError when the solver fails to run;
\* self.results is assigned after it.
Solve ==
    /\ opt.ncalls < MaxCalls
    /\ \E solver_runs \in BOOLEAN :
          LET o == IF NeedsBuild(opt) THEN Built(opt) ELSE opt
          IN  opt' = IF solver_runs
                     THEN [o EXCEPT !.results = "set", !.solved = @ + 1,
                                    !.ncalls = @ + 1,
                                    !.last = MethodReturned("solve", <<>>)]
                     ELSE [o EXCEPT !.ncalls = @ + 1,
                                    !.last = MethodRaised("solve", "PulpSolverError")]
    /\ UNCHANGED <<inputs, locals, pc, term, error, result, ghosts, calls, first_call, util, sub>>

\* get_results_dataframe()
GetResultsDataframe ==
    /\ opt.ncalls < MaxCalls
    /\ opt' = [opt EXCEPT !.ncalls = @ + 1,
                          !.last = IF NoResults(opt)
                                   THEN MethodRaised("get_results_dataframe", "ValueError")
                                   ELSE MethodReturned("get_results_dataframe",
                                                       ResultRows(opt))]
    /\ UNCHANGED <<inputs, locals, pc, term, error, result, ghosts, calls, first_call, util, sub>>

NextOpt == BuildModel \/ Solve \/ GetResultsDataframe

SpecOpt == InitOpt /\ [][NextOpt]_vars

Last(seq) == seq[Len(seq)]

NonNegativeInputs ==
    /\ \A i \in 1..num_sources : \A j \in 1..num_destinations : costs[i][j] >= 0
    /\ \A i \in 1..Len(supply) : supply[i] >= 0

WellFormed == ShapesMatch /\ NonNegativeInputs

\* sum_i sum_j cost[i][j] * f[i][j]
ShippingCost(f) ==
    Sum([i \in 1..num_sources |->
            Sum([j \in 1..num_destinations |-> costs[i][j] * f[i][j]])])

MaxOf(v) == IF Len(v) = 0 THEN 0 ELSE CHOOSE m \in {v[n] : n \in 1..Len(v)} :
                                          \A n \in 1..Len(v) : v[n] <= m

\* The integral primal-feasible flows: x >= 0, row sums <= supply, column
\* sums = demand.  The constraint matrix is totally unimodular, so the
\* cheapest feasible flow is among them.
FeasibleFlows ==
    { f \in [1..num_sources -> [1..num_destinations -> 0..MaxOf(demand)]] :
        /\ \A i \in 1..num_sources :
              Sum([j \in 1..num_destinations |-> f[i][j]]) <= supply[i]
        /\ \A j \in 1..num_destinations :
              Sum([i \in 1..num_sources |-> f[i][j]]) = demand[j] }

\* C1: best_lower_bound never decreases from one pass of the loop to the next.
C1_BestLowerBoundMonotone ==
    [][pc = "loop" => LeqExt(best_lower_bound, best_lower_bound')]_vars

\* C1 witness: a third pass computed a bound below the best one, and the
\* best one was kept.
C1_Witness ==
    /\ Len(lb_history) >= 3
    /\ Last(lb_history) < lb_history[Len(lb_history) - 1]
    /\ best_lower_bound.fin
    /\ best_lower_bound.num > Last(lb_history)

\* C2: weak duality.  On well-formed inputs, after every pass, the best lower
\* bound is at most the shipping cost of every primal-feasible flow.
C2_WeakDuality ==
    (WellFormed /\ best_lower_bound.fin) =>
        \A f \in FeasibleFlows : best_lower_bound.num <= ShippingCost(f) * Scale

\* C2 witness: a two-by-two problem with a feasible flow of positive cost that
\* the bound has reached exactly.
C2_Witness ==
    /\ WellFormed
    /\ num_sources = 2 /\ num_destinations = 2
    /\ best_lower_bound.fin
    /\ best_lower_bound.num > 0
    /\ \E f \in FeasibleFlows : best_lower_bound.num = ShippingCost(f) * Scale

\* C3: in every pass and in the returned result, each row of the flow has at
\* most one non-zero entry, and a non-zero entry is that row's supply.
RowShape(flow) ==
    \A i \in 1..num_sources :
        /\ Cardinality({j \in 1..num_destinations : flow[i][j] # 0}) <= 1
        /\ \A j \in 1..num_destinations :
              flow[i][j] # 0 => (i <= Len(supply) /\ flow[i][j] = supply[i])

C3_RowShape ==
    /\ x # Unbound => RowShape(x)
    /\ pc = "returned" => RowShape(result.flow)

\* C3 witness: a returned flow in which one row ships to the second
\* destination and another row ships nothing although its supply is positive.
C3_Witness ==
    /\ pc = "returned"
    /\ ShapesMatch
    /\ num_sources = 2 /\ num_destinations = 2
    /\ result.flow[1][2] # 0
    /\ supply[2] > 0
    /\ \A j \in 1..2 : result.flow[2][j] = 0

\* C4: the returned bound is the maximum of the lower bounds of all passes
\* executed, in both terminal states.
C4_ReturnsBestBound ==
    pc = "returned" =>
        /\ term \in {"converged", "exhausted"}
        /\ result.bound.fin
        /\ \A n \in 1..Len(lb_history) : lb_history[n] <= result.bound.num
        /\ \E n \in 1..Len(lb_history) : lb_history[n] = result.bound.num

\* C4 witness: the budget ran out in a pass whose bound is below the one
\* returned.
C4_Witness ==
    /\ pc = "returned"
    /\ term = "exhausted"
    /\ Last(lb_history) < result.bound.num

\* Progress measure of one call: the position in the function, and within
\* the loop the number of passes started.
Rank ==
    CASE pc = "call" -> 0
      [] pc = "loop" -> 1 + Len(lam_trace)
      [] pc = "post" -> 2 + max_iter
      [] OTHER -> 3 + max_iter

\* The guards of Call, Iterate and Return; their bodies are total.
StepPossible ==
    \/ pc = "call"
    \/ pc \in {"loop", "post"} /\ k < MaxIterBound

\* C5: on a well-formed input with 1 <= max_iter, the call runs at most
\* max_iter passes, raises nothing, and always reaches one of the two terminal
\* states and returns: until it has returned a step is possible, and every
\* step raises the bounded progress measure.
C5_Terminates ==
    /\ [](WellFormed /\ max_iter \in 1..MaxIterBound =>
            /\ pc # "raised"
            /\ Len(lam_trace) <= max_iter
            /\ Rank <= 3 + max_iter
            /\ (pc = "returned" => term \in {"converged", "exhausted"})
            /\ (pc = "returned" \/ StepPossible))
    /\ [][WellFormed /\ max_iter \in 1..MaxIterBound => Rank' > Rank]_vars

\* C5 witness: max_iter = 1, returned after exactly one pass without
\* convergence.
C5_Witness ==
    /\ WellFormed
    /\ max_iter = 1
    /\ pc = "returned"
    /\ term = "exhausted"
    /\ Len(lam_trace) = 1

\* C6: a second call with the same arguments goes through the same sequence
\* of multipliers and ends the same way with the same flow and bound.
C6_Deterministic ==
    calls = 2 =>
        /\ Len(lam_trace) <= Len(first_call.lams)
        /\ \A n \in 1..Len(lam_trace) : lam_trace[n] = first_call.lams[n]
        /\ pc \in {"returned", "raised"} =>
              /\ error = first_call.error
              /\ term = first_call.term
              /\ lam_trace = first_call.lams
              /\ (error = "none" => result = first_call.result)

\* C6 witness: the second call has returned after three passes with a
\* positive bound.
C6_Witness ==
    /\ calls = 2
    /\ pc = "returned"
    /\ Len(lam_trace) >= 3
    /\ result.bound.num > 0

\* C7 as stated: the run of Scenario A ends in the converged state.
C7_ScenarioAConverges ==
    pc = "returned" => term = "converged"

\* C7 amended: Scenario A never converges.  No pass has a zero subgradient,
\* and the run ends with the budget of 1000 passes exhausted.
C7_ScenarioANeverConverges ==
    /\ term # "converged"
    /\ pc \in {"post", "returned"} => (term = "exhausted" /\ k = DefaultMaxIter - 1)

\* C7 witness: Scenario A has returned after its last pass, k = 999.
C7_Witness ==
    /\ pc = "returned"
    /\ term = "exhausted"
    /\ k = DefaultMaxIter - 1
    /\ Len(lam_trace) = MaxIterBound

IsScenarioB ==
    /\ costs = ScenarioB.c /\ supply = ScenarioB.s /\ demand = ScenarioB.d
    /\ max_iter = DefaultMaxIter
    /\ tolerance = DefaultTolerance

\* C8: Scenario B converges in the pass with k = 1 (the subgradient is zero
\* there) and returns best_lower_bound = 50 and flow_matrix = [[10]].
C8_ScenarioB ==
    IsScenarioB =>
        /\ pc # "raised"
        /\ Len(lam_trace) <= 2
        /\ pc \in {"post", "returned"} =>
              (term = "converged" /\ k = 1 /\ NormSquared(Subgradient(x)) = 0)
        /\ pc = "returned" =>
              result = [flow |-> <<<<10>>>>, bound |-> Fin(50 * Scale)]

\* C8 witness: Scenario B has returned.
C8_Witness == IsScenarioB /\ pc = "returned" /\ term = "converged"

\* C9: a source with supply 0 never ships: its row of the flow is zero in
\* every pass, and so are its term of the relaxed cost and its share of every
\* column sum.
C9_ZeroSupplyNeverShips ==
    ShapesMatch =>
        \A i \in 1..num_sources :
            supply[i] = 0 =>
                /\ x # Unbound => \A j \in 1..num_destinations : x[i][j] = 0
                /\ \A n \in 1..Len(lam_trace) :
                      /\ RowRelaxedCost(i, lam_trace[n], SubproblemFlow(lam_trace[n])) = 0
                      /\ \A j \in 1..num_destinations :
                            SubproblemFlow(lam_trace[n])[i][j] = 0

\* C9 witness: the first source has supply 0 and a negative minimum
\* effective cost, while the second source ships.
C9_Witness ==
    /\ ShapesMatch
    /\ num_sources = 2
    /\ supply[1] = 0
    /\ x # Unbound
    /\ lam_trace # <<>>
    /\ Ships(1, Last(lam_trace))
    /\ \E j \in 1..num_destinations : x[2][j] > 0

\* C10: when the lengths of supply or demand disagree with the shape of the
\* cost matrix, the call fails before the first pass; in particular it never
\* returns a result.
C10_ShapeMismatchFailsFast ==
    ~ShapesMatch => (pc # "returned" /\ lb_history = <<>>)


\* C11: a call with max_iter < 1 is refused with an invalid-configuration
\* error before any computation: it never reaches the code after the loop,
\* and the error it ends with is the one raised for a bad argument.
C11_InvalidMaxIterRejected ==
    max_iter < 1 =>
        /\ pc \in {"call", "raised"}
        /\ pc = "raised" => error = "ValueError"

\* C12: a call with tolerance <= 0 is rejected at call time: it runs no
\* pass of the loop and returns no (flow, bound) result.
C12_InvalidToleranceRejected ==
    tolerance.num <= 0 => (lam_trace = <<>> /\ pc # "returned")

\* C13: no step of the function changes costs, supply or demand.
C13_InputsNeverMutated == [][UNCHANGED <<costs, supply, demand>>]_vars

\* C13 witness: the function returned after at least two passes, the last
\* of them with a non-zero multiplier and a non-zero flow.
C13_Witness ==
    /\ pc = "returned"
    /\ Len(lam_trace) >= 2
    /\ \E j \in 1..num_destinations : Last(lam_trace)[j] # 0
    /\ \E i \in 1..num_sources : \E j \in 1..num_destinations : x[i][j] # 0

\* C14: the returned value tells a converged run from an exhausted one: two
\* calls that return the same value ended in the same terminal state.
C14_ResultTellsConvergence ==
    (/\ calls = 2
     /\ pc = "returned"
     /\ first_call.error = "none"
     /\ result = first_call.result) => term = first_call.term

\* C15: validate_data returns True when every required column is present,
\* every listed numeric column that is present is numeric and the frame is
\* not empty; in every other case it raises ValueError for missing columns,
\* a non-numeric column or empty data.  It never returns False.
C15_ValidateDataTwoOutcomes ==
    (util.fn = "validate_data" /\ util.pc = "done") =>
        LET d == util.data
            required == {util.required_columns[n] : n \in 1..Len(util.required_columns)}
            numeric == {util.columns.list[n] : n \in 1..Len(util.columns.list)}
            valid == /\ \A c \in required : c \in ColumnNames /\ d.dtype[c] # "absent"
                     /\ \A c \in numeric \cap ColumnNames :
                            d.dtype[c] \in {"absent", "numeric"}
                     /\ d.rows > 0
                     /\ \E c \in ColumnNames : d.dtype[c] # "absent"
        IN  IF valid
            THEN util.outcome = Returned(TRUE)
            ELSE /\ util.outcome.kind = "raise"
                 /\ util.outcome.error = "ValueError"
                 /\ util.outcome.message \in {"Missing required columns",
                                               "must be numeric",
                                               "Data cannot be empty"}

\* C15 witness: True was returned for a frame with a string column that is
\* not listed as numeric, while the numeric list names a numeric column and
\* a name that is no column.
C15_Witness ==
    /\ util.fn = "validate_data" /\ util.pc = "done"
    /\ util.outcome = Returned(TRUE)
    /\ util.data.dtype["B"] = "string"
    /\ util.required_columns = <<"A", "B">>
    /\ util.columns = [given |-> TRUE, list |-> <<"X", "A">>]

\* C16: normalize_data with a method other than the three raises
\* ValueError('Unknown normalization method') for every frame and every
\* columns argument.
C16_UnknownMethodRaises ==
    (/\ util.fn = "normalize_data" /\ util.pc = "done"
     /\ util.method \notin {"minmax", "zscore", "robust"}) =>
        util.outcome = Raised("ValueError", "Unknown normalization method")

\* C17: get_results_dataframe raises ValueError exactly when no solve() has
\* completed before it, and otherwise returns days * items rows, one per
\* (day, item); a solve() call builds the model when none was built before
\* and leaves the number of builds as it is otherwise.
C17_Lifecycle ==
    /\ [](opt.last.fn = "get_results_dataframe" =>
            IF opt.solved = 0
            THEN opt.last.kind = "raise" /\ opt.last.error = "ValueError"
            ELSE /\ opt.last.kind = "return"
                 /\ Len(opt.last.rows) = opt.days * opt.items
                 /\ \A t \in 0..(opt.days - 1) : \A i \in 1..opt.items :
                       Cardinality({n \in 1..Len(opt.last.rows) :
                           opt.last.rows[n] = [day |-> t, item |-> i]}) = 1)
    /\ [][(opt'.last.fn = "solve" /\ opt'.ncalls = opt.ncalls + 1) =>
             opt'.builds = (IF opt.builds = 0 THEN 1 ELSE opt.builds)]_vars

\* C17 witness: the fourth call on an instance with two days and two items
\* returned the frame with its four rows; the model was built once and one
\* solve() completed.
C17_Witness ==
    /\ opt.last = MethodReturned("get_results_dataframe", ResultRows(opt))
    /\ opt.days = 2 /\ opt.items = 2
    /\ opt.ncalls = 4
    /\ opt.builds = 1
    /\ opt.solved = 1

\* The least entry of a vector
MinOver(e) ==
    CHOOSE m \in {e[j] : j \in 1..Len(e)} : \A j \in 1..Len(e) : m <= e[j]

\* A row that ships amount to destination j and nothing elsewhere
UnitRow(j, amount) == [j2 \in 1..num_destinations |-> IF j2 = j THEN amount ELSE 0]
ZeroRow == [j2 \in 1..num_destinations |-> 0]

C19_LowestIndexTieBreak ==
    pc = "solved" =>
        \A i \in 1..num_sources : \A j \in 1..num_destinations :
            x[i][j] # 0 =>
                LET e == EffectiveCosts(i, lambdas)
                IN  /\ e[j] = MinOver(e)
                    /\ \A j2 \in 1..(j - 1) : e[j2] > e[j]

\* C19 witness: two destinations tie at a negative effective cost and the
\* supply went to the first.
C19_Witness ==
    /\ pc = "solved"
    /\ num_destinations = 2
    /\ \E i \in 1..num_sources :
          LET e == EffectiveCosts(i, lambdas)
          IN  e[1] = e[2] /\ e[1] < 0 /\ x[i][1] # 0 /\ x[i][2] = 0

\* sum_i sum_j (cost[i][j] + lambda[j]) * f[i][j]   (times Scale)
RelaxedObjective(f) ==
    Sum([i \in 1..num_sources |->
            Sum([j \in 1..num_destinations |->
                    EffectiveCosts(i, lambdas)[j] * f[i][j]])])

\* The integral flows with 0 <= f[i][j] <= supply[i]
BoxFlows ==
    { f \in [1..num_sources -> [1..num_destinations -> 0..MaxOf(supply)]] :
        \A i \in 1..num_sources : \A j \in 1..num_destinations :
            f[i][j] <= supply[i] }

\* The integral flows with f >= 0 and sum_j f[i][j] <= supply[i].  The
\* vertices of the polytope are integral, so a linear objective attains its
\* minimum among them.
RowSumFlows ==
    { f \in BoxFlows :
        \A i \in 1..num_sources :
            Sum([j \in 1..num_destinations |-> f[i][j]]) <= supply[i] }

\* C20 as stated: no flow with 0 <= f[i][j] <= supply[i] has a smaller
\* relaxed objective than the computed one.
C20_OptimalOverBox ==
    pc = "solved" =>
        \A f \in BoxFlows : RelaxedObjective(x) <= RelaxedObjective(f)

\* C20 amended: the computed flow satisfies f >= 0 and
\* sum_j f[i][j] <= supply[i], and no flow within those constraints has a
\* smaller relaxed objective.
C20_OptimalOverRowSums ==
    pc = "solved" =>
        /\ x \in RowSumFlows
        /\ \A f \in RowSumFlows : RelaxedObjective(x) <= RelaxedObjective(f)

\* C20 witness: two destinations of one source have a negative effective
\* cost, the supply went to one of them only, and the objective is negative.
C20_Witness ==
    /\ pc = "solved"
    /\ num_destinations = 2
    /\ RelaxedObjective(x) < 0
    /\ \E i \in 1..num_sources :
          LET e == EffectiveCosts(i, lambdas)
          IN  e[1] < 0 /\ e[2] < e[1] /\ supply[i] > 0 /\ x[i][1] = 0 /\ x[i][2] = supply[i]
\* sum_i supply[i] * min(0, min_j (cost[i][j] + lam[j])) - sum_j lam[j] * demand[j]
\* (times Scale)
DualValue(lam) ==
    Sum([i \in 1..num_sources |->
            supply[i] * (IF MinOver(EffectiveCosts(i, lam)) < 0
                         THEN MinOver(EffectiveCosts(i, lam)) ELSE 0)])
    - Sum([j \in 1..num_destinations |-> lam[j] * demand[j]])

\* C21: the lower bound computed in every pass is the dual value of the
\* multipliers of that pass.
C21_DualValueFormula ==
    (ShapesMatch /\ lb_history # <<>> /\ Len(lb_history) = Len(lam_trace)) =>
        Last(lb_history) = DualValue(Last(lam_trace))

\* C21 witness: a pass in which one source shipped at a negative effective
\* cost, another with a positive supply did not ship, and the bound is not 0.
C21_Witness ==
    /\ ShapesMatch
    /\ num_sources = 2
    /\ lb_history # <<>> /\ Len(lb_history) = Len(lam_trace)
    /\ Last(lb_history) # 0
    /\ \E i \in 1..2 :
          /\ MinOver(EffectiveCosts(i, Last(lam_trace))) < 0
          /\ MinOver(EffectiveCosts(3 - i, Last(lam_trace))) >= 0
          /\ supply[1] > 0 /\ supply[2] > 0
\* Column sum j of a flow minus demand[j]
Violation(flow) ==
    [j \in 1..num_destinations |->
        Sum([i \in 1..num_sources |-> flow[i][j]]) - demand[j]]

\* C22: in pass k the convergence test comes before the update.  A pass
\* whose subgradient is zero ends the loop with the multipliers as they were;
\* any other pass adds (1 / (k + 1)) * g[j] to every multiplier, once.
C22_UpdateOrdering ==
    [][(pc = "loop" /\ ShapesMatch /\ pc' # "raised") =>
          LET g == Violation(x')
          IN  IF \A j \in 1..num_destinations : g[j] = 0
              THEN pc' = "post" /\ term' = "converged" /\ lambdas' = lambdas
              ELSE /\ term' # "converged"
                   /\ lambdas' = [j \in 1..num_destinations |->
                                     lambdas[j] + (Scale \div (k + 1)) * g[j]]]_vars

\* C22 witness: a run that converged in its third pass or later, after a
\* step of half a unit.
C22_Witness ==
    /\ pc = "returned"
    /\ term = "converged"
    /\ Len(lam_trace) >= 3
    /\ \E j \in 1..num_destinations :
          (lam_trace[3][j] - lam_trace[2][j]) % Scale # 0
\* The flow of the threshold policy for the multipliers lam, written from
\* costs, supply and lam alone: row i carries supply[i] at the first
\* destination of least cost[i][j] + lam[j] when that is negative
ThresholdFlow(lam) ==
    [i \in 1..num_sources |->
        LET e == [j \in 1..num_destinations |-> costs[i][j] * Scale + lam[j]]
            first == CHOOSE j \in 1..num_destinations :
                        /\ e[j] = MinOver(e)
                        /\ \A j2 \in 1..(j - 1) : e[j2] # MinOver(e)
        IN  IF MinOver(e) < 0 THEN UnitRow(first, supply[i]) ELSE ZeroRow]

\* C23 as stated: in both terminal states the flow that is returned is the
\* subproblem solver's output for the multipliers in force when the loop
\* ends.
C23_FlowOfMultipliersAtLoopEnd ==
    (pc = "post" /\ ShapesMatch /\ x # Unbound) => x = ThresholdFlow(lambdas)

\* C23 amended: the returned flow is the subproblem solver's output for the
\* multipliers at the start of the last pass.  In the converged state these
\* are the multipliers in force when the loop ends.
C23_FlowOfLastPassMultipliers ==
    (pc \in {"post", "returned"} /\ ShapesMatch /\ x # Unbound) =>
        /\ x = ThresholdFlow(Last(lam_trace))
        /\ (pc = "post" /\ term = "converged") => lambdas = Last(lam_trace)
        /\ pc = "returned" => result.flow = x

\* C23 witness: the budget ran out after a pass that shipped, and the
\* multipliers left by its update give another flow.
C23_Witness ==
    /\ pc = "post"
    /\ ShapesMatch
    /\ term = "exhausted"
    /\ x # Unbound
    /\ x = ThresholdFlow(Last(lam_trace))
    /\ \E i \in 1..num_sources : x[i] # ZeroRow
    /\ x # ThresholdFlow(lambdas)

\* C24: the flow of a pass is a function of costs, supply and the
\* multipliers at the start of the pass, whatever the flow was before, and
\* the returned flow is the flow of the last pass.
C24_NoHiddenStateInFlow ==
    /\ [][(pc = "loop" /\ ShapesMatch /\ pc' # "raised") =>
             x' = ThresholdFlow(lambdas)]_vars
    /\ [](pc = "returned" => result.flow = x)

\* C24 witness: an entry that was not zero in the flow of the pass before is
\* zero in the flow of the last pass, which was returned.
C24_Witness ==
    /\ pc = "returned"
    /\ ShapesMatch
    /\ Len(lam_trace) >= 2
    /\ \E i \in 1..num_sources : \E j \in 1..num_destinations :
          /\ ThresholdFlow(lam_trace[Len(lam_trace) - 1])[i][j] # 0
          /\ result.flow[i][j] = 0
\* C25: the clamp after the loop has no effect on the result.  The pair
\* returned is the flow and the best bound as they were before the clamp,
\* which is what the run returns without the clamp.
C25_ClampHasNoEffect ==
    [][(pc = "post" /\ pc' = "returned") =>
          /\ result' = [flow |-> x, bound |-> best_lower_bound]
          /\ x' = x
          /\ best_lower_bound' = best_lower_bound]_vars

\* C25 witness: a converged run returned a flow that ships, and the clamp
\* has set a negative multiplier to 0.
C25_Witness ==
    /\ pc = "returned"
    /\ term = "converged"
    /\ \E i \in 1..num_sources : \E j \in 1..num_destinations :
          result.flow[i][j] # 0
    /\ \E j \in 1..Len(lambdas) : Last(lam_trace)[j] < 0 /\ lambdas[j] = 0
\* C26: whatever the order in which the sources take their steps, the flow
\* and the relaxed cost are those of the sequential pass, and the
\* destination of a source is the first of least effective cost in its own
\* row.
C26_RowIndependence ==
    /\ \A i \in 1..Len(sub.step) :
          sub.step[i] # "argmin" =>
              LET e == [j \in 1..num_destinations |-> costs[i][j] * Scale + lambdas[j]]
              IN  /\ e[sub.dest[i]] = MinOver(e)
                  /\ \A j \in 1..(sub.dest[i] - 1) : e[j] # MinOver(e)
    /\ (sub.step # <<>> /\ \A i \in 1..Len(sub.step) : sub.step[i] = "done") =>
          /\ x = SubproblemFlow(lambdas)
          /\ sub.total = TotalCostRelaxed(lambdas, SubproblemFlow(lambdas))

\* C26 witness: the second source wrote its row while the first had not yet
\* chosen its destination; both ship.
C26_Witness ==
    /\ pc = "rows"
    /\ num_sources = 2
    /\ sub.step = <<"argmin", "add">>
    /\ x[2] # ZeroRow
    /\ Ships(1, lambdas) /\ supply[1] > 0
\* The sources whose cost row is all zero
ZeroCostRows ==
    {i \in 1..num_sources : \A j \in 1..num_destinations : costs[i][j] = 0}

\* The flow x is the flow of the pass that began with Last(lam_trace)
FlowIsCurrent ==
    /\ pc # "raised"
    /\ x # Unbound
    /\ lam_trace # <<>>
    /\ Len(lb_history) = Len(lam_trace)

\* C27 as stated: in every pass the row of a source whose costs are all zero
\* adds nothing to any column sum.
C27_ZeroCostRowShipsNothing ==
    (ShapesMatch /\ FlowIsCurrent) => \A i \in ZeroCostRows : x[i] = ZeroRow

\* C27 amended: a source whose costs are all zero aborts nothing and follows
\* the threshold policy on the multipliers alone: its row is zero when no
\* multiplier is negative, and carries its whole supply at the first
\* destination of least multiplier otherwise.
C27_ZeroCostRowFollowsMultipliers ==
    /\ (ShapesMatch /\ pc = "raised") => max_iter < 1
    /\ (ShapesMatch /\ FlowIsCurrent) =>
          \A i \in ZeroCostRows :
              LET lam == Last(lam_trace)
                  first == CHOOSE j \in 1..num_destinations :
                              /\ lam[j] = MinOver(lam)
                              /\ \A j2 \in 1..(j - 1) : lam[j2] # MinOver(lam)
              IN  x[i] = IF MinOver(lam) < 0
                         THEN UnitRow(first, supply[i]) ELSE ZeroRow

\* C27 witness: a source whose costs are all zero shipped its supply to the
\* second destination, beside a source with a positive cost.
C27_Witness ==
    /\ ShapesMatch
    /\ FlowIsCurrent
    /\ num_sources = 2 /\ num_destinations = 2
    /\ 1 \in ZeroCostRows
    /\ 2 \notin ZeroCostRows
    /\ x[1][2] # 0
C29_ConvergenceCertifiesOptimality ==
    (WellFormed /\ pc = "returned" /\ term = "converged") =>
        LET f == result.flow
        IN  /\ \A j \in 1..num_destinations :
                  Sum([i \in 1..num_sources |-> f[i][j]]) = demand[j]
            /\ \A i \in 1..num_sources :
                  /\ Sum([j \in 1..num_destinations |-> f[i][j]]) <= supply[i]
                  /\ \A j \in 1..num_destinations : f[i][j] >= 0
            /\ result.bound = Fin(ShippingCost(f) * Scale)
            /\ \A f2 \in FeasibleFlows : ShippingCost(f) <= ShippingCost(f2)

\* C29 witness: a two-by-two run converged after three passes on a flow of
\* positive cost in which the sources ship to different destinations.
C29_Witness ==
    /\ WellFormed
    /\ pc = "returned"
    /\ term = "converged"
    /\ num_sources = 2 /\ num_destinations = 2
    /\ Len(lam_trace) >= 3
    /\ ShippingCost(result.flow) > 0
    /\ \E j \in 1..2 : result.flow[1][j] # 0 /\ result.flow[2][3 - j] # 0
\* C30: in a built model, for every item and day, the inventory-balance
\* constraint and the unmet-demand constraint have the same arrival term:
\* order_qty[i, t - lead_time] when t >= lead_time, none otherwise.
C30_SameArrivalTerm ==
    opt.problem = "built" =>
        \A i \in 1..opt.items : \A t \in 0..(opt.days - 1) :
            LET expected == IF t >= opt.lead_time
                            THEN [item |-> i, day |-> t - opt.lead_time]
                            ELSE [item |-> 0, day |-> -1]
            IN  /\ opt.inventory_arrival[<<i, t>>] = expected
                /\ opt.unmet_arrival[<<i, t>>] = expected
====
